---- MODULE Spec2Model ----
(***************************************************************************)
(* shlep: a bash-script preprocessor.  The model covers the traversal      *)
(* engine (src/src/traverse.ts), the code generator (codegen) and the      *)
(* import resolver with its command-line entry point (class Context).      *)
(*                                                                         *)
(* Text is modelled as a tuple of one-character strings so that path and   *)
(* template operations are computed character by character.  AST nodes     *)
(* are records with a `type` tag; an absent value is the record Null or    *)
(* Undefined, a JavaScript array handed back by a handler is the record    *)
(* Arr(items).  An absent `prefix`/`suffix` array of a Command is the      *)
(* empty tuple: every use in the code (`x ? x.map(..).join(" ") : ""`,     *)
(* `cmd.suffix.filter(..)[0].text`) behaves the same for both.             *)
(***************************************************************************)
EXTENDS Integers, Sequences, FiniteSets

VARIABLES pc, ast, outAst, stdout, loads, resolverCalls, fault, tree, firstRead, lastRead, mutations, call

vars == <<pc, ast, outAst, stdout, loads, resolverCalls, fault, tree, firstRead, lastRead, mutations, call>>

(* ------------------------------ bounds -------------------------------- *)

MaxCmds == 3

MaxMutations == 1

(* ------------------------------- text --------------------------------- *)

RECURSIVE ToStr(_)
ToStr(cs) ==
    CASE Len(cs) = 0 -> ""
      [] Len(cs) = 1 -> cs[1]
      [] OTHER -> ToStr(SubSeq(cs, 1, Len(cs) \div 2))
                    \o ToStr(SubSeq(cs, Len(cs) \div 2 + 1, Len(cs)))

NL == <<"\n">>

SP == <<" ">>

T_echo == <<"e", "c", "h", "o">>

T_hi == <<"h", "i">>

T_import == <<"i", "m", "p", "o", "r", "t">>

T_greet == <<"g", "r", "e", "e", "t">>

T_assign == <<"X", "=", "1">>

T_zz == <<"z", "z">>

T_undefined == <<"u", "n", "d", "e", "f", "i", "n", "e", "d">>

ColonColon == <<":", ":">>

(* ------------------------------- nodes -------------------------------- *)

Null == [type |-> "null"]

Undefined == [type |-> "undefined"]

Arr(items) == [type |-> "array", items |-> items]

IsAbsent(n) == n.type \in {"null", "undefined"}

Word(t) == [type |-> "Word", text |-> t, hasSource |-> FALSE]

AssignmentWord(t) == [type |-> "AssignmentWord", text |-> t, hasSource |-> FALSE]

Name(t) == [type |-> "Name", text |-> t, hasSource |-> FALSE]

Command(name, prefix, suffix) ==
    [type |-> "Command", name |-> name, prefix |-> prefix, suffix |-> suffix, hasSource |-> FALSE]

CompoundList(cmds) == [type |-> "CompoundList", commands |-> cmds, hasSource |-> FALSE]

Function(name, body) == [type |-> "Function", name |-> Name(name), body |-> body, hasSource |-> FALSE]

If(clause, then, else) ==
    [type |-> "If", clause |-> clause, then |-> then, else |-> else, hasSource |-> FALSE]

Pipeline(cmds) == [type |-> "Pipeline", commands |-> cmds, hasSource |-> FALSE]

Case(clause, cases) == [type |-> "Case", clause |-> clause, cases |-> cases, hasSource |-> FALSE]

Script(cmds) == [type |-> "Script", commands |-> cmds, hasSource |-> FALSE]

ParseError == [type |-> "ParseError"]

(* --------------------------- sample statements ------------------------ *)

CmdEcho == Command(Word(T_echo), <<>>, <<Word(T_hi)>>)

CmdAssign == Command(Undefined, <<AssignmentWord(T_assign)>>, <<>>)

Import(path) == Command(Word(T_import), <<>>, <<Word(path)>>)

ImportNoArg == Command(Word(T_import), <<>>, <<>>)

P_util == <<"u", "t", "i", "l">>

P_libmod == <<"l", "i", "b", "/", "m", "o", "d">>

P_libmodsh == <<"l", "i", "b", "/", "m", "o", "d", ".", "s", "h">>

P_tools == <<"t", "o", "o", "l", "s">>

P_a == <<"a">>

P_b == <<"b">>

P_bad == <<"b", "a", "d">>

P_nope == <<"n", "o", "p", "e">>

FnGreet == Function(T_greet, CompoundList(<<CmdEcho>>))

FnNested == Function(<<"f">>, CompoundList(<<Import(P_util), CmdEcho>>))

IfNoElse == If(CompoundList(<<CmdEcho>>), CompoundList(<<CmdEcho, CmdAssign>>), Undefined)

IfElse == If(CompoundList(<<CmdEcho, CmdEcho>>), CompoundList(<<CmdEcho>>), CompoundList(<<CmdAssign>>))

IfEmptyElse == If(CompoundList(<<CmdEcho>>), CompoundList(<<CmdEcho>>), CompoundList(<<>>))

IfNullElse == If(CompoundList(<<CmdAssign>>), CompoundList(<<CmdEcho>>), Null)

CaseEmpty == Case(Word(<<"x">>), <<>>)

IfCaseThen == If(CompoundList(<<CmdEcho>>), CompoundList(<<CaseEmpty>>), Undefined)

PipeEcho == Pipeline(<<CmdEcho, CmdAssign>>)

(* ----------------------------- file system ---------------------------- *)

Filename == <<"/", "w", "/", "m", "a", "i", "n", ".", "s", "h">>

DotSh == <<".", "s", "h">>

Abs(rel) == <<"/", "w", "/">> \o rel

ModUtil == Script(<<FnGreet>>)

ModLib ==
    Script(<<CmdEcho,
             Function(<<"o", "n", "e">>, CompoundList(<<CmdEcho>>)),
             If(CompoundList(<<CmdEcho>>),
                CompoundList(<<Function(<<"i", "n">>, CompoundList(<<CmdEcho>>))>>),
                Undefined),
             Function(<<"t", "w", "o">>, CompoundList(<<Import(P_util)>>))>>)

ModTools == Script(<<Function(<<"t">>, CompoundList(<<CmdAssign>>))>>)

ModToolsSh == Script(<<Function(<<"s">>, CompoundList(<<CmdEcho>>))>>)

ModA == Script(<<Function(<<"f", "a">>, CompoundList(<<Import(P_b)>>)), Import(P_b)>>)

ModB == Script(<<Import(P_a), Function(<<"f", "b">>, CompoundList(<<Import(P_a)>>))>>)

FileNames ==
    {Abs(P_util \o DotSh), Abs(P_libmodsh), Abs(P_tools), Abs(P_tools \o DotSh),
     Abs(P_a \o DotSh), Abs(P_b \o DotSh), Abs(P_bad \o DotSh)}

FS ==
    [f \in FileNames |->
        CASE f = Abs(P_util \o DotSh) -> ModUtil
          [] f = Abs(P_libmodsh) -> ModLib
          [] f = Abs(P_tools) -> ModTools
          [] f = Abs(P_tools \o DotSh) -> ModToolsSh
          [] f = Abs(P_a \o DotSh) -> ModA
          [] f = Abs(P_b \o DotSh) -> ModB
          [] OTHER -> ParseError]

existsSync(f) == f \in DOMAIN FS

(* ------------------------------- path --------------------------------- *)

LastIndexOf(cs, ch) ==
    LET hits == {i \in 1..Len(cs) : cs[i] = ch}
    IN  IF hits = {} THEN 0 ELSE CHOOSE i \in hits : \A j \in hits : j <= i

dirname(p) ==
    LET k == LastIndexOf(p, "/")
    IN  IF k = 0 THEN <<".">> ELSE IF k = 1 THEN <<"/">> ELSE SubSeq(p, 1, k - 1)

resolve(dir, p) ==
    IF p # <<>> /\ p[1] = "/" THEN p ELSE dir \o <<"/">> \o p

Last(p) == SubSeq(p, LastIndexOf(p, "/") + 1, Len(p))

extname(p) ==
    LET b == Last(p)
        k == LastIndexOf(b, ".")
    IN  IF k <= 1 THEN <<>> ELSE SubSeq(b, k, Len(b))

(* basename without the extension argument applied *)
basenameKeepExt(p, ext) == Last(p)

basename(p, ext) ==
    LET b == Last(p)
        n == Len(b) - Len(ext)
    IN  IF ext # <<>> /\ n > 0 /\ SubSeq(b, n + 1, Len(b)) = ext THEN SubSeq(b, 1, n) ELSE b

(* ------------------------- effects of a call -------------------------- *)

(* A call's result and its effects travel in one record: `out` is the      *)
(* value returned, `log` the handler invocations so far, `loads` the files *)
(* read so far, `err` the exception in flight.  A call takes the record    *)
(* of the call before it as its incoming state and ignores its `out`.      *)

NoErr == "none"

St0 == [out |-> [type |-> "null"], log |-> <<>>, loads |-> <<>>, err |-> NoErr]

Throw(st, e) == [st EXCEPT !.err = e]

Return(st, v) == [st EXCEPT !.out = v]

(* ------------------------- visitor tables ----------------------------- *)

Table(t) == [array |-> FALSE, table |-> t]

Chain(ts) == [array |-> TRUE, items |-> ts]

CodegenTypes ==
    {"Script", "Word", "AssignmentWord", "Name", "CompoundList", "Function", "Command", "If"}

DescendTypes == {"Script", "CompoundList", "Pipeline", "Function", "Command", "If", "Case"}

Methods(t) ==
    CASE t = "DescendVisitor" -> DescendTypes
      [] t = "Context" -> {"Command"}
      [] t = "Codegen" -> CodegenTypes
      [] t \in {"RetNull", "RetArray", "RetEmpty", "RetUndef"} -> {"Command"}
      [] t = "RetNode" -> {"Word"}
      [] OTHER -> {}

HasDefault(t) == t \in {"DefaultUndef", "DefaultNull"}

Returns(t) ==
    CASE t = "RetNull" -> Null
      [] t = "RetArray" -> Arr(<<CmdAssign, CmdEcho>>)
      [] t = "RetEmpty" -> Arr(<<>>)
      [] t = "RetNode" -> Word(T_zz)
      [] t = "DefaultNull" -> Null
      [] OTHER -> Undefined

(* --------------------------- import resolver -------------------------- *)

RECURSIVE Rename(_, _)
Rename(funcs, mod) ==
    IF funcs = <<>> THEN <<>>
    ELSE <<[Head(funcs) EXCEPT !.name.text = mod \o ColonColon \o @]>> \o Rename(Tail(funcs), mod)

IsWord(n) == n.type = "Word"

IsFunction(n) == n.type = "Function"

(* a resolver that skips an import whose file does not exist *)
ContextImportLenient(cmd, st) ==
    LET argv == SelectSeq(cmd.suffix, IsWord)
        file0 == resolve(dirname(Filename), argv[1].text)
        file == IF existsSync(file0) THEN file0 ELSE file0 \o DotSh
        funcs == SelectSeq(FS[file].commands, IsFunction)
        mod == basename(file, extname(file))
    IN  CASE argv = <<>> -> Throw(st, "TypeError")
          [] ~existsSync(file) -> Return(st, Arr(<<>>))
          [] FS[file].type = "ParseError" ->
                [st EXCEPT !.loads = Append(@, file), !.err = "SyntaxError"]
          [] OTHER -> [st EXCEPT !.loads = Append(@, file), !.out = Arr(Rename(funcs, mod))]

(* a resolver that reads each module file once and inlines it once *)
ContextImportOnce(cmd, st) ==
    LET argv == SelectSeq(cmd.suffix, IsWord)
        file0 == resolve(dirname(Filename), argv[1].text)
        file == IF existsSync(file0) THEN file0 ELSE file0 \o DotSh
        funcs == SelectSeq(FS[file].commands, IsFunction)
        mod == basename(file, extname(file))
        seen == \E k \in 1..Len(st.loads) : st.loads[k] = file
    IN  CASE argv = <<>> -> Throw(st, "TypeError")
          [] ~existsSync(file) -> Throw(st, "ENOENT")
          [] seen -> Return(st, Arr(<<>>))
          [] FS[file].type = "ParseError" ->
                [st EXCEPT !.loads = Append(@, file), !.err = "SyntaxError"]
          [] OTHER -> [st EXCEPT !.loads = Append(@, file), !.out = Arr(Rename(funcs, mod))]

ContextImport(cmd, st) ==
    LET argv == SelectSeq(cmd.suffix, IsWord)
        file0 == resolve(dirname(Filename), argv[1].text)
        file == IF existsSync(file0) THEN file0 ELSE file0 \o DotSh
        funcs == SelectSeq(FS[file].commands, IsFunction)
        mod == basename(file, extname(file))
    IN  CASE argv = <<>> -> Throw(st, "TypeError")
          [] ~existsSync(file) -> Throw(st, "ENOENT")
          [] FS[file].type = "ParseError" ->
                [st EXCEPT !.loads = Append(@, file), !.err = "SyntaxError"]
          [] OTHER -> [st EXCEPT !.loads = Append(@, file), !.out = Arr(Rename(funcs, mod))]

ContextCommand(cmd, st) ==
    CASE IsAbsent(cmd.name) -> Return(st, Undefined)
      [] cmd.name.text = T_import -> ContextImport(cmd, st)
      [] OTHER -> Return(st, Undefined)

(* ----------------------------- codegen rules -------------------------- *)

defSource(node) == [node EXCEPT !.hasSource = TRUE]

(* --------------------------- traversal engine ------------------------- *)

RECURSIVE Visit(_, _, _, _)
RECURSIVE VisitFold(_, _, _, _, _)
RECURSIVE TraverseSeq(_, _, _, _)
RECURSIVE DescendHandler(_, _, _)

Resolved(t, node) ==
    IF node.type \in Methods(t) THEN "method" ELSE IF HasDefault(t) THEN "default" ELSE "none"

(* `out == null` in place of `out === undefined` *)
KeepAbsent(node, out) == IF IsAbsent(out) THEN node ELSE out

KeepUndefined(node, out) == IF out.type = "undefined" THEN node ELSE out

(* the result of one table's visit, with the call recorded in the log:     *)
(* `ret` is what the handler returned, `out` what visit returns            *)
Visited(t, how, node, r) ==
    [r EXCEPT !.out = KeepUndefined(node, @),
              !.log = Append(@, [table |-> t, how |-> how, in |-> node, ret |-> r.out,
                                 out |-> KeepUndefined(node, r.out)])]

(* `return node` for a null or undefined node *)
AbsentResultSame(node) == node

(* `return null` for a null or undefined node *)
AbsentResult(node) == Null

(* `out = null` where the table has neither a method nor a defaultMethod *)
NoHandlerNull(node) == Null

(* `out = node` where the table has neither a method nor a defaultMethod *)
NoHandler(node) == node

Visit(node, ctx, visitor, st) ==
    CASE st.err # NoErr \/ IsAbsent(node) -> Return(st, AbsentResult(node))
      [] visitor.array -> VisitFold(node, ctx, visitor.items, 1, st)
      [] Resolved(visitor.table, node) = "none" ->
            Visited(visitor.table, "none", node, Return(st, NoHandler(node)))
      [] visitor.table = "DescendVisitor" ->
            Visited(visitor.table, "method", node, DescendHandler(node, ctx, st))
      [] visitor.table = "Context" ->
            Visited(visitor.table, "method", node, ContextCommand(node, st))
      [] visitor.table = "Codegen" ->
            Visited(visitor.table, "method", node, Return(st, defSource(node)))
      [] OTHER ->
            Visited(visitor.table, Resolved(visitor.table, node), node,
                    Return(st, Returns(visitor.table)))

(* visitor.reduce((n, v) => visit(n, context, v), node) *)
FoldStep(r, ctx, vs, i) == IF r.err # NoErr THEN r ELSE VisitFold(r.out, ctx, vs, i + 1, r)

VisitFold(n, ctx, vs, i, st) ==
    IF i > Len(vs) THEN Return(st, n) ELSE FoldStep(Visit(n, ctx, vs[i], st), ctx, vs, i)

(* the two visitors of the chain in the other order *)
VisitorChainUserFirst(visitor) == Chain(<<visitor, Table("DescendVisitor")>>)

VisitorChain(visitor) == Chain(<<Table("DescendVisitor"), visitor>>)

traverseNode(visitor, node, st) == Visit(node, visitor, VisitorChain(visitor), st)

Splice(acc, out) ==
    CASE out.type = "array" -> acc \o out.items
      [] IsAbsent(out) -> acc
      [] OTHER -> Append(acc, out)

Spliced(acc, r) == [r EXCEPT !.out = Splice(acc, @)]

(* st.out holds the elements rebuilt so far *)
TraverseSeq(nodes, i, ctx, st) ==
    IF st.err # NoErr \/ i > Len(nodes) THEN st
    ELSE TraverseSeq(nodes, i + 1, ctx, Spliced(st.out, traverseNode(ctx, nodes[i], st)))

DescendHandler(node, ctx, st) ==
    CASE node.type \in {"Script", "CompoundList", "Pipeline"} ->
            LET r == TraverseSeq(node.commands, 1, ctx, Return(st, <<>>))
            IN  [r EXCEPT !.out = [node EXCEPT !.commands = r.out]]
      [] node.type = "Function" ->
            LET rn == traverseNode(ctx, node.name, st)
                rb == traverseNode(ctx, node.body, rn)
            IN  [rb EXCEPT !.out = [node EXCEPT !.name = rn.out, !.body = rb.out]]
      [] node.type = "Command" ->
            LET rn == traverseNode(ctx, node.name, st)
                rp == TraverseSeq(node.prefix, 1, ctx, Return(rn, <<>>))
                rs == TraverseSeq(node.suffix, 1, ctx, Return(rp, <<>>))
            IN  [rs EXCEPT !.out =
                    [node EXCEPT !.name = rn.out, !.prefix = rp.out, !.suffix = rs.out]]
      [] node.type = "If" ->
            LET rc == traverseNode(ctx, node.clause, st)
                rt == traverseNode(ctx, node.then, rc)
                re == traverseNode(ctx, node.else, rt)
            IN  [re EXCEPT !.out =
                    [node EXCEPT !.clause = rc.out, !.then = rt.out, !.else = re.out]]
      [] node.type = "Case" ->
            LET rc == traverseNode(ctx, node.clause, st)
                ri == TraverseSeq(node.cases, 1, ctx, Return(rc, <<>>))
            IN  [ri EXCEPT !.out = [node EXCEPT !.clause = rc.out, !.cases = ri.out]]
      [] OTHER -> Return(st, Undefined)

traverse(root, visitor, st) == traverseNode(visitor, root, st)

(* ------------------------- generated source text --------------------- *)

RECURSIVE SourceText(_)
RECURSIVE JoinSources(_, _)

(* Array.prototype.join over `.source`: an undefined element contributes "" *)
JoinSources(nodes, sep) ==
    IF nodes = <<>> THEN <<>>
    ELSE LET h == IF Head(nodes).hasSource THEN SourceText(Head(nodes)) ELSE <<>>
         IN  IF Len(nodes) = 1 THEN h ELSE h \o sep \o JoinSources(Tail(nodes), sep)

(* string concatenation with a `.source` that may be undefined *)
Concat(node) == IF node.hasSource THEN SourceText(node) ELSE T_undefined

(* `${node}`: toString forwards to source where defSource installed it *)
toString(node) ==
    IF node.hasSource THEN SourceText(node)
    ELSE <<"[", "o", "b", "j", "e", "c", "t", " ", "O", "b", "j", "e", "c", "t", "]">>

AndThen(s, t) == IF s = <<>> THEN <<>> ELSE t

FunctionSource(name, body) ==
    name \o <<"(", ")", " ", "{", "\n", " ", " ">> \o body \o <<"\n", "}">>

(* a Command rule that leaves out the separator of an empty prefix *)
CommandSourceTrim(prefix, name, suffix) ==
    IF prefix = <<>> THEN name \o SP \o suffix ELSE prefix \o SP \o name \o SP \o suffix

CommandSource(prefix, name, suffix) == prefix \o SP \o name \o SP \o suffix

(* an If rule that writes both blocks unconditionally *)
IfSourceBothBlocks(clause, then, else) ==
    <<"i", "f", " ">> \o clause \o NL
        \o <<"t", "h", "e", "n", "\n">> \o then \o NL
        \o <<"e", "l", "s", "e", "\n">> \o else \o NL
        \o <<"\n", "f", "i">>

IfSource(clause, then, else) ==
    <<"i", "f", " ">> \o clause \o NL
        \o AndThen(then, <<"t", "h", "e", "n", "\n">> \o then \o NL)
        \o AndThen(else, <<"e", "l", "s", "e", "\n">> \o else \o NL)
        \o <<"\n", "f", "i">>

SourceText(node) ==
    CASE node.type \in {"Word", "AssignmentWord", "Name"} -> node.text
      [] node.type \in {"Script", "CompoundList"} -> JoinSources(node.commands, NL)
      [] node.type = "Function" -> FunctionSource(node.name.text, toString(node.body))
      [] node.type = "Command" ->
            LET suffix == JoinSources(node.suffix, SP)
                prefix == JoinSources(node.prefix, SP)
                name == IF IsAbsent(node.name) THEN <<>> ELSE Concat(node.name)
            IN  CommandSource(prefix, name, suffix)
      [] node.type = "If" ->
            LET clause == IF IsAbsent(node.clause) THEN <<>>
                          ELSE JoinSources(node.clause.commands, SP)
                then == IF IsAbsent(node.then) THEN <<>>
                        ELSE JoinSources(node.then.commands, NL)
                else == IF IsAbsent(node.else) THEN <<>>
                        ELSE JoinSources(node.else.commands, SP)
            IN  IfSource(clause, then, else)
      [] OTHER -> <<>>

(* the value of a read of node.source: undefined where no getter exists *)
NoValue == [def |-> FALSE, s |-> <<>>]

Unread == [read |-> FALSE, changed |-> FALSE, v |-> NoValue]

(* a getter that keeps the value of the first read *)
GetSourceMemo(node, first) ==
    IF first.read THEN first.v
    ELSE IF node.hasSource THEN [def |-> TRUE, s |-> SourceText(node)] ELSE NoValue

(* the getter installed by defSource: `get: fn`, run again on every read *)
GetSource(node, first) ==
    IF node.hasSource THEN [def |-> TRUE, s |-> SourceText(node)] ELSE NoValue

codegen(root) == traverse(root, Table("Codegen"), St0)

(* ----------------------------- inputs --------------------------------- *)

Statements ==
    {CmdEcho, CmdAssign, Import(P_util), Import(P_libmod), Import(P_tools), Import(P_a),
     Import(P_nope), Import(P_bad), ImportNoArg, FnNested}

RECURSIVE SeqsUpTo(_, _)
SeqsUpTo(S, n) ==
    IF n = 0 THEN {<<>>}
    ELSE LET shorter == SeqsUpTo(S, n - 1)
         IN  shorter \cup {Append(q, x) : q \in shorter, x \in S}

Scripts == {Script(q) : q \in SeqsUpTo(Statements, MaxCmds)}

(* --------------------- the command-line run (Context) ----------------- *)

IsContextCall(e) == e.table = "Context" /\ e.how = "method"

Idle == [fn |-> "none"]

Init ==
    /\ pc = "start"
    /\ ast \in Scripts
    /\ outAst = Null
    /\ stdout = <<>>
    /\ loads = <<>>
    /\ resolverCalls = 0
    /\ fault = NoErr
    /\ tree = Null
    /\ firstRead = <<>>
    /\ lastRead = Idle
    /\ mutations = 0
    /\ call = Idle

(* Context.process, first half: traverse(this.ast, this) *)
ImportPass ==
    /\ pc = "start"
    /\ LET r == traverse(ast, Table("Context"), St0)
       IN  /\ loads' = r.loads
           /\ resolverCalls' = Len(SelectSeq(r.log, IsContextCall))
           /\ fault' = r.err
           /\ IF r.err = NoErr
              THEN pc' = "traversed" /\ outAst' = r.out
              ELSE pc' = "error" /\ outAst' = outAst
    /\ UNCHANGED <<ast, stdout, tree, firstRead, lastRead, mutations, call>>

(* Context.process, second half: codegen(outAst) *)
Codegen ==
    /\ pc = "traversed"
    /\ outAst' = codegen(outAst).out
    /\ pc' = "generated"
    /\ UNCHANGED <<ast, stdout, loads, resolverCalls, fault, tree, firstRead, lastRead, mutations, call>>

(* console.log(ctx.process().toString()) *)
Output ==
    /\ pc = "generated"
    /\ stdout' = Append(stdout, toString(outAst) \o NL)
    /\ pc' = "printed"
    /\ UNCHANGED <<ast, outAst, loads, resolverCalls, fault, tree, firstRead, lastRead, mutations, call>>

Next == ImportPass \/ Codegen \/ Output

Spec == Init /\ [][Next]_vars

(* ------------------ reading source after codegen --------------------- *)

MaxSrcCmds == 2

SrcStatements ==
    {CmdEcho, CmdAssign, FnGreet, IfNoElse, IfElse, IfEmptyElse, IfNullElse, IfCaseThen, PipeEcho}

SrcScripts == {Script(q) : q \in SeqsUpTo(SrcStatements, MaxSrcCmds)}

(* node 0 is the root, node i its i-th command *)
NodeAt(root, i) == IF i = 0 THEN root ELSE root.commands[i]

HasNameText(n) ==
    \/ n.type = "Function"
    \/ n.type = "Command" /\ ~IsAbsent(n.name)

InitSource ==
    /\ pc = "parsed"
    /\ tree \in SrcScripts
    /\ firstRead = [i \in 0..Len(tree.commands) |-> Unread]
    /\ lastRead = Idle
    /\ mutations = 0
    /\ ast = Null
    /\ outAst = Null
    /\ stdout = <<>>
    /\ loads = <<>>
    /\ resolverCalls = 0
    /\ fault = NoErr
    /\ call = Idle

CodegenCall ==
    /\ pc = "parsed"
    /\ tree' = codegen(tree).out
    /\ pc' = "coded"
    /\ UNCHANGED <<ast, outAst, stdout, loads, resolverCalls, fault, firstRead, lastRead,
                   mutations, call>>

ReadSource(i) ==
    /\ pc = "coded"
    /\ LET v == GetSource(NodeAt(tree, i), firstRead[i])
       IN  /\ lastRead' = [fn |-> "read", at |-> i, v |-> v]
           /\ firstRead' =
                IF firstRead[i].read THEN firstRead
                ELSE [firstRead EXCEPT ![i] = [read |-> TRUE, changed |-> FALSE, v |-> v]]
    /\ UNCHANGED <<pc, ast, outAst, stdout, loads, resolverCalls, fault, tree, mutations, call>>

(* an in-place write of commands[i].name.text *)
MutateText(i) ==
    /\ pc = "coded"
    /\ mutations < MaxMutations
    /\ HasNameText(tree.commands[i])
    /\ tree.commands[i].name.text # T_zz
    /\ tree' = [tree EXCEPT !.commands[i].name.text = T_zz]
    /\ firstRead' =
          [j \in DOMAIN firstRead |->
              IF j \in {0, i} /\ firstRead[j].read
              THEN [firstRead[j] EXCEPT !.changed = TRUE] ELSE firstRead[j]]
    /\ lastRead' = Idle
    /\ mutations' = mutations + 1
    /\ UNCHANGED <<pc, ast, outAst, stdout, loads, resolverCalls, fault, call>>

NextSource ==
    \/ CodegenCall
    \/ \E i \in 0..Len(tree.commands) : ReadSource(i)
    \/ \E i \in 1..Len(tree.commands) : MutateText(i)

SpecSource == InitSource /\ [][NextSource]_vars

(* ------------------- calls of visit and traverse ---------------------- *)

MaxTreeCmds == 2

Tables ==
    {"Empty", "Context", "Codegen", "DescendVisitor", "RetNull", "RetArray", "RetEmpty",
     "RetUndef", "RetNode", "DefaultUndef", "DefaultNull"}

TraverseTables == Tables \ {"DescendVisitor"}

PairTables == {"Empty", "Codegen", "RetNull", "RetUndef"}

VisitVisitors ==
    {Table(t) : t \in Tables} \cup {Chain(<<>>)}
        \cup {Chain(<<Table(a), Table(b)>>) : a \in PairTables, b \in PairTables}
        \cup {VisitorChain(Table(t)) : t \in {"Empty", "Context", "RetArray"}}

VisitNodes ==
    {Null, Undefined, Word(T_hi), Name(T_greet), CmdEcho, CmdAssign, Import(P_util),
     Import(P_nope), FnGreet, IfNoElse, PipeEcho, Script(<<CmdEcho, Import(P_util)>>)}

TreeStatements ==
    {CmdEcho, CmdAssign, Import(P_util), FnNested, IfNoElse, IfElse, IfNullElse, CaseEmpty, PipeEcho}

TraverseTrees == {Script(q) : q \in SeqsUpTo(TreeStatements, MaxTreeCmds)}

InitVisit ==
    /\ pc = "calls"
    /\ call = Idle
    /\ ast = Null
    /\ outAst = Null
    /\ stdout = <<>>
    /\ loads = <<>>
    /\ resolverCalls = 0
    /\ fault = NoErr
    /\ tree = Null
    /\ firstRead = <<>>
    /\ lastRead = Idle
    /\ mutations = 0

(* visit(node, [null, null, {}], visitor) *)
VisitCall ==
    /\ pc = "calls"
    /\ pc' = "called"
    /\ \E node \in VisitNodes, visitor \in VisitVisitors :
          call' = [fn |-> "visit", node |-> node, visitor |-> visitor,
                   res |-> Visit(node, Table("Empty"), visitor, St0)]
    /\ UNCHANGED <<ast, outAst, stdout, loads, resolverCalls, fault, tree, firstRead,
                   lastRead, mutations>>

(* traverse(root, visitor) *)
TraverseCall ==
    /\ pc = "calls"
    /\ pc' = "called"
    /\ \E root \in TraverseTrees, t \in TraverseTables :
          call' = [fn |-> "traverse", node |-> root, visitor |-> Table(t),
                   res |-> traverse(root, Table(t), St0)]
    /\ UNCHANGED <<ast, outAst, stdout, loads, resolverCalls, fault, tree, firstRead,
                   lastRead, mutations>>

NextVisit == VisitCall \/ TraverseCall

SpecVisit == InitVisit /\ [][NextVisit]_vars

(* ------------------- reference definitions for the claims ------------- *)

RECURSIVE Norm(_)
RECURSIVE NormSeq(_)

(* a tree with every absent child written as Null *)
Norm(n) ==
    CASE IsAbsent(n) -> Null
      [] n.type = "array" -> Arr(NormSeq(n.items))
      [] n.type \in {"Script", "CompoundList", "Pipeline"} -> [n EXCEPT !.commands = NormSeq(@)]
      [] n.type = "Function" -> [n EXCEPT !.name = Norm(@), !.body = Norm(@)]
      [] n.type = "Command" ->
            [n EXCEPT !.name = Norm(@), !.prefix = NormSeq(@), !.suffix = NormSeq(@)]
      [] n.type = "If" -> [n EXCEPT !.clause = Norm(@), !.then = Norm(@), !.else = Norm(@)]
      [] n.type = "Case" -> [n EXCEPT !.clause = Norm(@), !.cases = NormSeq(@)]
      [] OTHER -> n

NormSeq(q) == IF q = <<>> THEN <<>> ELSE <<Norm(Head(q))>> \o NormSeq(Tail(q))

RECURSIVE CommandsOf(_)
RECURSIVE CommandsOfSeq(_)

(* the Command nodes of a tree, in document order *)
CommandsOf(n) ==
    CASE IsAbsent(n) -> <<>>
      [] n.type \in {"Script", "CompoundList", "Pipeline"} -> CommandsOfSeq(n.commands)
      [] n.type = "Function" -> CommandsOf(n.body)
      [] n.type = "Command" -> <<n>>
      [] n.type = "If" -> CommandsOf(n.clause) \o CommandsOf(n.then) \o CommandsOf(n.else)
      [] OTHER -> <<>>

CommandsOfSeq(q) == IF q = <<>> THEN <<>> ELSE CommandsOf(Head(q)) \o CommandsOfSeq(Tail(q))

IsImport(n) == n.type = "Command" /\ ~IsAbsent(n.name) /\ n.name.text = T_import

ImportCount(n) == Len(SelectSeq(CommandsOf(n), IsImport))

ImportArg(n) == n.suffix[1].text

ResolvablePaths == {P_util, P_libmod, P_libmodsh, P_tools, P_a}

IsResolvable(n) == IsImport(n) /\ n.suffix # <<>> /\ ImportArg(n) \in ResolvablePaths

IsMissing(n) == IsImport(n) /\ n.suffix # <<>> /\ ImportArg(n) = P_nope

(* what each import of the sample file system is expected to inline *)
ExpectedImport(path) ==
    CASE path = P_util ->
            <<Function(<<"u", "t", "i", "l", ":", ":", "g", "r", "e", "e", "t">>,
                       CompoundList(<<CmdEcho>>))>>
      [] path \in {P_libmod, P_libmodsh} ->
            <<Function(<<"m", "o", "d", ":", ":", "o", "n", "e">>, CompoundList(<<CmdEcho>>)),
              Function(<<"m", "o", "d", ":", ":", "t", "w", "o">>,
                       CompoundList(<<Import(P_util)>>))>>
      [] path = P_tools ->
            <<Function(<<"t", "o", "o", "l", "s", ":", ":", "t">>, CompoundList(<<CmdAssign>>))>>
      [] path = P_a ->
            <<Function(<<"a", ":", ":", "f", "a">>, CompoundList(<<Import(P_b)>>))>>
      [] OTHER -> <<>>

RECURSIVE ExpectedCommands(_)
ExpectedCommands(q) ==
    IF q = <<>> THEN <<>>
    ELSE (IF IsImport(Head(q)) THEN ExpectedImport(ImportArg(Head(q))) ELSE <<Head(q)>>)
            \o ExpectedCommands(Tail(q))

Flat(q) == \A j \in 1..Len(q) : IsResolvable(q[j]) \/ ImportCount(q[j]) = 0

OthersImportFree(q, i) == \A j \in 1..Len(q) : j # i => ImportCount(q[j]) = 0

(* ------------------------------ claims -------------------------------- *)

ScenarioRoot == Script(<<Import(P_util), CmdEcho>>)

(* C2 as stated: the scenario's generated text has two spaces before the   *)
(* function body's command.                                                *)
C2_AsStated ==
    (ast = ScenarioRoot /\ pc \in {"generated", "printed"}) =>
        ToStr(toString(outAst)) = "util::greet() {\n  echo hi\n}\n echo hi"

(* C2 amended: the body's Command source carries its own leading space     *)
(* after the template's two-space indent, so the text generated for the    *)
(* scenario is "util::greet() {\n   echo hi\n}\n echo hi", and that text   *)
(* is what is written to standard output.                                  *)
C2_ScenarioText ==
    (ast = ScenarioRoot /\ pc \in {"generated", "printed"}) =>
        /\ ToStr(toString(outAst)) = "util::greet() {\n   echo hi\n}\n echo hi"
        /\ pc = "printed" => ToStr(stdout[1]) = "util::greet() {\n   echo hi\n}\n echo hi\n"

C2_Witness == ast = ScenarioRoot /\ pc = "printed" /\ Len(stdout) = 1

HasMissingImport == \E k \in 1..Len(CommandsOf(ast)) : IsMissing(CommandsOf(ast)[k])

(* C4: a run whose script imports a path that exists neither literally nor *)
(* with ".sh" ends in the error state with nothing on standard output;     *)
(* output is written only after the import pass and codegen both finished  *)
(* without error.                                                          *)
C4_NoPartialOutput ==
    /\ [](HasMissingImport => (pc \in {"start", "error"} /\ stdout = <<>>))
    /\ [](pc = "error" => (fault # NoErr /\ stdout = <<>>))
    /\ [](stdout # <<>> => (pc = "printed" /\ fault = NoErr /\ outAst.hasSource))
    /\ [][(HasMissingImport /\ pc = "start") => pc' = "error"]_vars

C4_Witness ==
    /\ pc = "error"
    /\ fault = "ENOENT"
    /\ Len(ast.commands) = 2
    /\ IsMissing(ast.commands[2])
    /\ loads # <<>>

RECURSIVE InlinedImports(_)
InlinedImports(files) ==
    IF files = <<>> THEN 0
    ELSE ImportCount(Script(SelectSeq(FS[Head(files)].commands, IsFunction)))
            + InlinedImports(Tail(files))

(* C10: the import pass is single: the resolver runs once per Command of   *)
(* the root tree, one file is loaded per import command of the root tree,  *)
(* and the imports inside inlined function bodies stay unresolved, also    *)
(* when the modules import each other.                                     *)
C10_SinglePass ==
    /\ Len(loads) <= ImportCount(ast)
    /\ pc = "traversed" =>
          /\ Len(loads) = ImportCount(ast)
          /\ resolverCalls = Len(CommandsOf(ast))
          /\ ImportCount(outAst) = InlinedImports(loads)

C10_Witness ==
    /\ pc = "traversed"
    /\ ast.commands = <<Import(P_a), Import(P_a)>>
    /\ loads = <<Abs(P_a \o DotSh), Abs(P_a \o DotSh)>>
    /\ ImportCount(outAst) = 2

(* the outermost handler invocation of a call is the last one logged *)
LastCall(res) == res.log[Len(res.log)]

IsVisitOfTable == call.fn = "visit" /\ ~call.visitor.array /\ ~IsAbsent(call.node)

HandlerResolved ==
    IsVisitOfTable /\ call.res.log # <<>> /\ LastCall(call.res).how \in {"method", "default"}

(* C5: visit of a non-absent node with a resolved handler returns the node *)
(* itself when the handler returned undefined and otherwise exactly what   *)
(* the handler returned: null stays null, an array stays that array, a     *)
(* replacement node stays that node.                                       *)
C5_HandlerResult ==
    (HandlerResolved /\ call.res.err = NoErr) =>
        /\ LastCall(call.res).in = call.node
        /\ call.res.out = IF LastCall(call.res).ret.type = "undefined"
                          THEN call.node ELSE LastCall(call.res).ret
        /\ call.visitor.table \in {"RetNull", "DefaultNull"} => call.res.out = Null
        /\ call.visitor.table \in {"RetUndef", "DefaultUndef"} => call.res.out = call.node
        /\ call.visitor.table = "RetArray" => call.res.out = Arr(<<CmdAssign, CmdEcho>>)
        /\ call.visitor.table = "RetEmpty" => call.res.out = Arr(<<>>)
        /\ call.visitor.table = "RetNode" => call.res.out = Word(T_zz)
        /\ (call.visitor.table = "Context" /\ ~IsImport(call.node)) => call.res.out = call.node

C5_Witness ==
    /\ HandlerResolved
    /\ call.visitor.table = "RetNull"
    /\ call.node = CmdEcho
    /\ LastCall(call.res).ret = Null
    /\ call.res.out = Null

(* C9 as stated: visit of an absent node returns that node unchanged, so   *)
(* an undefined input yields undefined.                                    *)
C9_AsStated ==
    (call.fn = "visit" /\ IsAbsent(call.node)) =>
        (call.res.out = call.node /\ call.res.log = <<>>)

(* C9 amended: visit of an absent node returns null for a null and for an  *)
(* undefined input alike, for a single table and for a sequence of         *)
(* visitors, and no handler is invoked.                                    *)
C9_AbsentGivesNull ==
    (call.fn = "visit" /\ IsAbsent(call.node)) =>
        (call.res.out = Null /\ call.res.log = <<>> /\ call.res.err = NoErr)

C9_Witness ==
    /\ call.fn = "visit"
    /\ call.node = Undefined
    /\ call.visitor.array
    /\ Len(call.visitor.items) = 2
    /\ call.res.out = Null

IsUserEntry(e) == e.table # "DescendVisitor"

(* C6: in a traverse, every invocation of the user visitor on a node comes *)
(* directly after the descend step of that node and takes the descend      *)
(* step's result as its input; while no handler throws, every descend step *)
(* is followed by the user visitor in the same way.                        *)
C6_DescendThenVisit ==
    call.fn = "traverse" =>
        LET log == call.res.log
        IN  /\ \A k \in 1..Len(log) :
                  IsUserEntry(log[k]) =>
                      /\ k > 1
                      /\ ~IsUserEntry(log[k - 1])
                      /\ log[k].in = log[k - 1].out
            /\ call.res.err = NoErr =>
                  \A k \in 1..Len(log) :
                      ~IsUserEntry(log[k]) =>
                          /\ k < Len(log)
                          /\ IsUserEntry(log[k + 1])
                          /\ log[k + 1].in = log[k].out

C6_Witness ==
    /\ call.fn = "traverse"
    /\ call.visitor.table = "Context"
    /\ call.node = Script(<<FnNested>>)
    /\ \E k \in 2..Len(call.res.log) :
          /\ IsUserEntry(call.res.log[k])
          /\ call.res.log[k - 1].in = FnNested
          /\ call.res.log[k].in.type = "Function"
          /\ call.res.log[k].in.body.commands[1].type = "Function"

IsEmptyTraverse == call.fn = "traverse" /\ call.visitor.table = "Empty"

(* C8 as stated: traverse with the empty table returns a tree equal to its *)
(* input, absent optional children included.                               *)
C8_AsStated == IsEmptyTraverse => call.res.out = call.node

(* C8 amended: traverse with the empty table returns the input tree with   *)
(* the same nodes, order, types and field values, except that an optional  *)
(* child that is undefined in the input is null in the result.             *)
C8_IdentityUpToNull ==
    IsEmptyTraverse => (call.res.out = Norm(call.node) /\ call.res.err = NoErr)

C8_Witness ==
    /\ IsEmptyTraverse
    /\ call.node = Script(<<IfNoElse, CmdAssign>>)
    /\ call.res.out.commands[1].else = Null
    /\ call.res.out.commands[1].then.commands[1] = CmdEcho
    /\ call.res.out.commands[2].name = Null

(* sub occurs in cs as a contiguous run *)
HasSub(cs, sub) ==
    \E k \in 1..(Len(cs) - Len(sub) + 1) : SubSeq(cs, k, k + Len(sub) - 1) = sub

IsRead == lastRead.fn = "read"

ReadNode == NodeAt(tree, lastRead.at)

Joined(list, sep) == IF IsAbsent(list) THEN <<>> ELSE JoinSources(list.commands, sep)

IfWithoutElse(n) ==
    /\ n.type = "If"
    /\ ~IsAbsent(n.clause) /\ n.clause.commands # <<>>
    /\ ~IsAbsent(n.then) /\ Joined(n.then, NL) # <<>>
    /\ IsAbsent(n.else) \/ n.else.commands = <<>>

====
